---- MODULE Spec2Model ----
(***************************************************************************)
(* Model of the expression evaluation engine of astrocalculator:           *)
(*   src/calc/__init__.py  AstroCalculator (simple_eval, parse_and_eval,   *)
(*                         calculate), execute_calculation                 *)
(*   src/calc/calc.py      parse_and_eval, calculate, execute_calculation  *)
(*   src/calc/app.py, src/astrocalculator/app.py   the request handlers    *)
(*   src/acap.py           the callbacks calculate and evaluate_user       *)
(*                                                                         *)
(* Text is modelled as a sequence of lexemes (a name, a number, an         *)
(* operator or ONE blank character), so that strip, split and the          *)
(* membership tests of the code are computed the way Python computes them. *)
(***************************************************************************)
EXTENDS Integers, Sequences, FiniteSets, TLC

\* ------------------------------------------------------------------ bounds
MaxStmts == 3

\* ------------------------------------------------------- program constants
REQUIRE_UNDERSCORE == FALSE
DIGITS == 10

\* ---------------------------------------------------------------- strings
Whitespace == {" ", "\t"}

RECURSIVE lstrip(_)
lstrip(s) ==
    IF s = <<>> THEN <<>>
    ELSE IF Head(s) \in Whitespace THEN lstrip(Tail(s)) ELSE s

RECURSIVE rstrip(_)
rstrip(s) ==
    IF s = <<>> THEN <<>>
    ELSE IF s[Len(s)] \in Whitespace THEN rstrip(SubSeq(s, 1, Len(s) - 1)) ELSE s

strip(s) == rstrip(lstrip(s))

\* positions at which the separator text sep starts in s
Occurrences(s, sep) ==
    {i \in 1..(Len(s) - Len(sep) + 1) : SubSeq(s, i, i + Len(sep) - 1) = sep}

Min(S) == CHOOSE x \in S : \A y \in S : x <= y

\* "sep in s" for a separator text
Contains(s, sep) == Occurrences(s, sep) # {}

\* str.split(sep): non-overlapping occurrences, left to right
RECURSIVE split(_, _)
split(s, sep) ==
    IF Occurrences(s, sep) = {} THEN <<s>>
    ELSE LET i == Min(Occurrences(s, sep))
         IN  <<SubSeq(s, 1, i - 1)>> \o split(SubSeq(s, i + Len(sep), Len(s)), sep)

RECURSIVE join(_, _)
join(parts, sep) ==
    IF parts = <<>> THEN <<>>
    ELSE IF Len(parts) = 1 THEN parts[1]
    ELSE parts[1] \o sep \o join(Tail(parts), sep)

RECURSIVE RemoveAll(_, _)
RemoveAll(s, chars) ==
    IF s = <<>> THEN <<>>
    ELSE IF Head(s) \in chars THEN RemoveAll(Tail(s), chars)
    ELSE <<Head(s)>> \o RemoveAll(Tail(s), chars)

\* ----------------------------------------------------------------- values
\* a Python int, an astropy quantity, constant or unit (magnitude and
\* exponents of length, time and electric current), or any other Python
\* object (function, module, text)
NoDim == <<0, 0, 0>>
IntV(n) == [t |-> "int", n |-> n, dim |-> NoDim, txt |-> "none"]
QtyV(n, d) == [t |-> "qty", n |-> n, dim |-> d, txt |-> "none"]
UnitV(n, d) == [t |-> "unit", n |-> n, dim |-> d, txt |-> "none"]
\* astropy.constants: a Constant, or an EMConstant (em) such as e
ConstV(n, d, em) ==
    [t |-> "const", n |-> n, dim |-> d, txt |-> IF em THEN "em" ELSE "none"]
ObjV(name) == [t |-> "obj", n |-> 0, dim |-> NoDim, txt |-> name]
StrV(msg) == [t |-> "str", n |-> 0, dim |-> NoDim, txt |-> msg]
\* Python's None
NoneV == [t |-> "none", n |-> 0, dim |-> NoDim, txt |-> "none"]

Ok(v) == [ok |-> TRUE, val |-> v, err |-> "none"]
Fail(kind) == [ok |-> FALSE, val |-> IntV(0), err |-> kind]

\* x * y for Python ints, astropy units and astropy quantities
Times(x, y) ==
    LET d == [i \in 1..3 |-> x.dim[i] + y.dim[i]]
    IN  IF x.t \in {"obj", "str"} \/ y.t \in {"obj", "str"} THEN Fail("TypeError")
        ELSE IF x.t = "int" /\ y.t = "int" THEN Ok(IntV(x.n * y.n))
        ELSE IF x.t = "unit" /\ y.t = "unit" THEN Ok(UnitV(x.n * y.n, d))
        ELSE Ok(QtyV(x.n * y.n, d))

\* ------------------------------------------------------ lexemes of an expression
Numbers == {"2", "3"}
NumVal(tok) == IF tok = "2" THEN 2 ELSE 3
Operators == {"*"}
\* lexemes that can never be part of a Python expression
NonExpr == {"=", ",", ";"}
IsName(tok) == tok \notin Numbers \cup Operators \cup NonExpr \cup Whitespace \cup {"in"}
IsOperand(tok) == tok \in Numbers \/ IsName(tok)

\* the characters simple_eval accepts for direct evaluation are
\* '0123456789+-*/().eE pinflogcossinqrt^**': lexemes made of these only
FastLexemes == Numbers \cup Operators \cup {" ", "c", "in", "pi", "sin", "log", "e", "g", "s"}

\* ---------------------------------------------------------------- registry
\* the namespace right after _initialize_constants and _initialize_units
\* (a representative of each kind: constant, unit, function, number)
c_light == ConstV(3, <<1, -1, 0>>, FALSE)
e_charge == ConstV(2, <<0, 1, 1>>, TRUE)
Registry ==
    [k \in {<<"c">>, <<"e">>, <<"m">>, <<"m2">>, <<"sin">>, <<"log">>} |->
        IF k = <<"c">> THEN c_light
        ELSE IF k = <<"e">> THEN e_charge
        ELSE IF k = <<"m">> THEN UnitV(1, <<1, 0, 0>>)
        ELSE IF k = <<"m2">> THEN UnitV(1, <<2, 0, 0>>)
        ELSE ObjV(k[1])]

\* AstroCalculator.user_units: the names convert looks up in the namespace
\* ('deg' is listed but _define_derived_units binds 'degrees', not 'deg')
user_units == {<<"deg">>, <<"m2">>}

\* the unit names astropy's Unit(name) knows, for quant.to(name)
AstropyUnits ==
    [k \in {<<"m">>, <<"s">>} |->
        IF k = <<"m">> THEN UnitV(1, <<1, 0, 0>>) ELSE UnitV(1, <<0, 1, 0>>)]

\* names of the hosting module src/calc/__init__.py (its globals())
ModuleGlobals ==
    [k \in {<<"DIGITS">>, <<"log">>, <<"os">>} |->
        IF k = <<"DIGITS">> THEN IntV(DIGITS) ELSE ObjV(k[1])]

\* safe_dict of simple_eval: math names, overridden by the namespace
MathNames == [k \in {<<"log">>} |-> ObjV("log")]

Override(base, over) ==
    [k \in DOMAIN base \cup DOMAIN over |-> IF k \in DOMAIN over THEN over[k] ELSE base[k]]

\* ------------------------------------------------------ parsing, evaluation
\* The expression language of the model: numbers, names, '*' and (for the
\* sympy parser only) juxtaposition as implicit multiplication.

\* Python's own grammar, as used by eval(): operand ('*' operand)*
PythonSyntaxOk(toks) ==
    /\ Len(toks) % 2 = 1
    /\ \A i \in 1..Len(toks) :
          IF i % 2 = 1 THEN IsOperand(toks[i]) ELSE toks[i] = "*"

\* sympy's parse_expr with implicit_multiplication: operand ('*'? operand)*
SympySyntaxOk(toks) ==
    /\ toks # <<>>
    /\ \A i \in 1..Len(toks) : IsOperand(toks[i]) \/ toks[i] = "*"
    /\ IsOperand(toks[1]) /\ IsOperand(toks[Len(toks)])
    /\ \A i \in 1..(Len(toks) - 1) : ~(toks[i] = "*" /\ toks[i + 1] = "*")

\* str(parse_expr(...)): no blanks, every multiplication written out
RECURSIVE Canonical(_)
Canonical(toks) ==
    IF Len(toks) <= 1 THEN toks
    ELSE IF IsOperand(toks[1]) /\ IsOperand(toks[2])
         THEN <<toks[1], "*">> \o Canonical(Tail(toks))
         ELSE <<toks[1]>> \o Canonical(Tail(toks))

\* parse_expr(expr, transformations, evaluate=False) followed by str()
parse_expr(expr) ==
    LET toks == RemoveAll(expr, Whitespace)
    IN  IF SympySyntaxOk(toks)
        THEN [ok |-> TRUE, text |-> Canonical(toks)]
        ELSE [ok |-> FALSE, text |-> expr]

\* value of one operand in the environment env (a name -> value mapping)
OperandValue(tok, env) ==
    IF tok \in Numbers THEN Ok(IntV(NumVal(tok)))
    ELSE IF <<tok>> \in DOMAIN env THEN Ok(env[<<tok>>])
    ELSE Fail("NameError")

\* Python's evaluation of  x1 * x2 * ... * xn , left to right
RECURSIVE EvalRest(_, _, _)
EvalRest(acc, rest, env) ==
    IF ~acc.ok \/ rest = <<>> THEN acc
    ELSE LET rhs == OperandValue(rest[2], env)
         IN  IF ~rhs.ok THEN rhs
             ELSE EvalRest(Times(acc.val, rhs.val), SubSeq(rest, 3, Len(rest)), env)

\* eval(text, env) for a text of Python's grammar
PyEval(text, env) ==
    LET toks == RemoveAll(text, Whitespace)
    IN  IF ~PythonSyntaxOk(toks) THEN Fail("SyntaxError")
        ELSE EvalRest(OperandValue(toks[1], env), Tail(toks), env)

\* outcome of an evaluation: the parsed text and the value, or the error
Evaluated(text, v) == [ok |-> TRUE, parsed |-> text, val |-> v, err |-> "none"]
Raised(text, kind) == [ok |-> FALSE, parsed |-> text, val |-> IntV(0), err |-> kind]

\* the direct-evaluation test of simple_eval
IsSimple(expr) == \A i \in 1..Len(expr) : expr[i] = " " \/ expr[i] \in FastLexemes

\* eval(inp_expr_str, globals(), namespace): the namespace, then the
\* globals of the hosting module
SympyEnv(namespace) == Override(ModuleGlobals, namespace)

simple_eval(expr0, namespace) ==
    LET expr == strip(expr0)
        safe_dict == Override(MathNames, namespace)
        direct == IF IsSimple(expr) THEN PyEval(expr, safe_dict) ELSE Fail("NotSimple")
        parsed == parse_expr(expr)
        result == PyEval(parsed.text, SympyEnv(namespace))
    IN  IF direct.ok THEN Evaluated(expr, direct.val)
        ELSE IF ~parsed.ok THEN Raised(expr, "ParseError")
        ELSE IF ~result.ok THEN Raised(parsed.text, result.err)
        ELSE Evaluated(parsed.text, result.val)

\* AstroCalculator.parse_and_eval: every exception becomes an EvalError
\* that carries the original error as its message
parse_and_eval(expr, namespace) == simple_eval(expr, namespace)

\* ------------------------------------------------------------------ inputs
\* The statements a caller may write; an input is up to MaxStmts different
\* ones of them joined by ", ", or an empty or blank text.
StatementPool ==
    { <<"a", " ", "=", " ", "2">>,                      \* a = 2
      <<"b", " ", "=", " ", "a", " ", "*", " ", "3">>,  \* b = a * 3
      <<"b">>,                                          \* b
      <<"c", " ", "=", " ", "2">>,                      \* c = 2   (c is a constant)
      <<"b", " ", "=", " ", "2", " ", "*">>,            \* b = 2 * (dangling operator)
      <<"a", " ", "=", " ", "b", " ", "=", " ", "2">>,  \* a = b = 2
      <<"a", " ", "b", " ", "=", " ", "2">>,            \* a b = 2
      <<"a", "\t", "b", " ", "=", " ", "2">> }          \* a<TAB>b = 2

RECURSIVE StatementSeqs(_)
StatementSeqs(n) ==
    IF n = 0 THEN {<<>>}
    ELSE LET shorter == StatementSeqs(n - 1)
         IN  shorter \cup
             UNION {{Append(q, st) : st \in StatementPool \ {q[i] : i \in 1..Len(q)}} :
                        q \in {r \in shorter : Len(r) = n - 1}}

Inputs == {join(q, <<",", " ">>) : q \in StatementSeqs(MaxStmts)} \cup {<<" ">>}

\* Inputs that end in a result to convert, with or without an ' in ' clause
ExpressionPool ==
    { <<"c">>,                                          \* a constant (a velocity)
      <<"e">>,                                          \* the constant e: no CGS value
      <<"sin">>,                                        \* a function
      <<"2", " ", "*", " ", "m">>,                      \* a length
      <<"2", " ", "*">>,                                \* dangling operator
      <<"DIGITS">>,                                     \* a name of the module only
      <<"a", " ", "=", " ", "2", ";", " ", "a">>,       \* a = 2; a
      <<"a", " ", "=", " ", "2", " ", "in", " ", "m", ",", " ", "a">> }
                                                        \* a = 2 in m, a
ClausePool ==
    { <<>>,
      <<" ", "in", " ", "m">>,                          \* in m
      <<" ", "in", " ", " ", "s">>,                     \* in  s (two blanks)
      <<" ", "in", " ", "deg">>,                        \* a user unit
      <<" ", "in", " ", "m2">>,                         \* a user unit
      <<" ", "in", " ", "xyz">>,                        \* no unit of that name
      <<" ", "in", " ", "m", " ", "in", " ", "s">> }    \* in m in s
ClauseInputs == {x \o cl : x \in ExpressionPool, cl \in ClausePool}

\* parse_input: newlines become ', ' and ';' becomes ','
RECURSIVE parse_input(_)
parse_input(text) ==
    IF text = <<>> THEN <<>>
    ELSE IF Head(text) = "\n" THEN <<",", " ">> \o parse_input(Tail(text))
    ELSE IF Head(text) = ";" THEN <<",">> \o parse_input(Tail(text))
    ELSE <<Head(text)>> \o parse_input(Tail(text))

\* inp.replace(';', ',') of the interactive loop
RECURSIVE ReplaceSemicolons(_)
ReplaceSemicolons(text) ==
    IF text = <<>> THEN <<>>
    ELSE <<IF Head(text) = ";" THEN "," ELSE Head(text)>> \o ReplaceSemicolons(Tail(text))

\* The lines a user may type at the prompt of the interactive loop
\* (the empty line that ends a submission is implied), and the
\* submissions: one line, or an assignment line followed by a second line.
InCommands ==
    { <<"in", " ", "m">>, <<"in", " ", " ", "s">>, <<"in", " ", "deg">>,
      <<"in", " ", "m2">>, <<"in", " ", ",">> }
\* the special commands: quit, help, the list of the saved histories
SpecialCommands == { <<"q">>, <<"help">>, <<"history">> }
TypedLines == ClauseInputs \cup InCommands \cup SpecialCommands
                \cup { <<"a", " ", "*", " ", "m">> }     \* a * m
Submissions ==
    {<<l>> : l \in TypedLines}
      \cup {<< <<"a", " ", "=", " ", "2", ",">>, l >> :
                l \in {<<"a", " ", "*", " ", "m", " ", "in", " ", "m">>, <<"in", " ", "m">>,
                       <<"q">>}}

\* line.rstrip(',;')
RECURSIVE rstripChars(_, _)
rstripChars(s, chars) ==
    IF s = <<>> THEN <<>>
    ELSE IF s[Len(s)] \in chars THEN rstripChars(SubSeq(s, 1, Len(s) - 1), chars) ELSE s

\* line.startswith('in ')
StartsWithIn(line) == Len(line) >= 2 /\ line[1] = "in" /\ line[2] = " "

\* line.startswith('in ') or line == 'q' or line.startswith('save ') or
\* line.startswith('history'): the line is the last of its submission
EndsSubmission(line) ==
    \/ StartsWithIn(line)
    \/ line = <<"q">>
    \/ Len(line) >= 2 /\ line[1] = "save" /\ line[2] = " "
    \/ line # <<>> /\ line[1] = "history"

\* the inner loop of main_interactive that collects the lines of one
\* submission: each line is stripped, an empty line ends the submission,
\* trailing ',' and ';' are removed, a line that starts with 'in ' or is a
\* command ends it too
RECURSIVE CollectLines(_)
CollectLines(typed) ==
    IF typed = <<>> THEN <<>>
    ELSE LET line == strip(Head(typed))
             kept == rstripChars(line, {",", ";"})
         IN  IF line = <<>> THEN <<>>
             ELSE IF EndsSubmission(kept) THEN <<kept>>
             ELSE <<kept>> \o CollectLines(Tail(typed))

\* ------------------------------------------------------------------- state
VARIABLES
    local_namespace,   \* AstroCalculator.local_namespace
    pc,                \* position in calculate: idle, loop, final, format, returned, raised
                       \* (calc_loop, ... in the calculate of calc.py)
    inp,               \* the argument of the running (or last) call
    lines,             \* calculate: lines
    count,             \* calculate: index of the statement processed next (from 1)
    exp_to_eval,       \* calculate: exp_to_eval
    target_unit,       \* calculate: target_unit
    raw_result,        \* calculate: raw_result
    ret,               \* the tuple returned by the last call
    exc,               \* the exception that left the last call
    evalLog,           \* expressions handed to parse_and_eval by this call, in order
    entry_namespace,   \* local_namespace at the entry of this call
    local_vars,        \* calc.py: the table local_vars of calculate
    program,           \* what this process runs: calls of AstroCalculator.calculate
                       \* ("calc"), of calc.py's calculate ("calc.py"), of
                       \* execute_calculation ("cli"), main_interactive ("repl"),
                       \* a web application ("calc/app.py", "astrocalculator/app.py")
                       \* or the GUI ("gui")
    requests,          \* the web application: the frames of the requests being handled
    window,            \* acap.py: the global Ret and the texts of the widgets
    last_raw,          \* main_interactive: ret_raw, kept from one submission to the next
    converts,          \* the calls of convert made for this submission, in order
    output             \* what the caller printed for this submission, in order

vars == <<local_namespace, pc, inp, lines, count, exp_to_eval, target_unit,
          raw_result, ret, exc, evalLog, entry_namespace, local_vars, program, requests, window, last_raw, converts, output>>

NoText == <<"None">>
NoVars == [k \in {} |-> NoneV]
NoExc == [type |-> "none", kind |-> "none"]
EvalError(kind) == [type |-> "EvalError", kind |-> kind]
NoRet == [parsed |-> NoText, raw |-> NoneV, si |-> NoneV, cgs |-> NoneV, unit |-> NoText]

\* the web applications handle up to two requests at a time; each request
\* runs execute_calculation of calc.py in a frame of its own
RequestIds == {1, 2}
WebPrograms == {"calc/app.py", "astrocalculator/app.py"}
NoResponse == [status |-> 0, error |-> "none", page |-> <<>>]
IdleFrame ==
    [pc |-> "idle", inp |-> <<>>, units |-> NoText, lines |-> <<>>, count |-> 0,
     exp_to_eval |-> NoText, local_vars |-> NoVars, raw_result |-> NoneV,
     ret |-> NoRet, exc |-> NoExc, response |-> NoResponse]

\* acap.py right after main() has built the window: the global Ret is not
\* defined yet (None here), the output labels and the entries are empty
EmptyText == [t |-> "text", n |-> 0, dim |-> NoDim, txt |-> ""]
NoWindow ==
    [inp |-> <<>>, input_parse |-> <<>>, Ret |-> NoneV, row0 |-> "Outputs:",
     out_cgs |-> EmptyText, out_si |-> EmptyText, out_user |-> EmptyText,
     ent_user |-> <<>>]

Init ==
    /\ local_namespace = Registry
    /\ pc = "idle"
    /\ inp = <<>>
    /\ lines = <<>>
    /\ count = 0
    /\ exp_to_eval = NoText
    /\ target_unit = NoText
    /\ raw_result = NoneV
    /\ ret = NoRet
    /\ exc = NoExc
    /\ evalLog = <<>>
    /\ entry_namespace = Registry
    /\ local_vars = NoVars
    /\ program \in {"calc", "calc.py", "cli", "repl", "gui"} \cup WebPrograms
    /\ requests = [r \in RequestIds |-> IdleFrame]
    /\ window = NoWindow
    /\ last_raw = NoneV
    /\ converts = <<>>
    /\ output = <<>>

Finished == pc \in {"returned", "raised", "calc_returned", "calc_raised"}

\* the ' in ' clause of calculate: split off only when exactly one ' in '
InClause == <<" ", "in", " ">>
SplitTarget(text) ==
    LET parts == split(text, InClause)
    IN  IF Contains(text, InClause) /\ Len(parts) = 2
        THEN [inp |-> strip(parts[1]), target_unit |-> strip(parts[2])]
        ELSE [inp |-> text, target_unit |-> NoText]

\* calculate, up to the loop over the statements
Calculate(text) ==
    /\ pc = "idle"
    /\ inp' = text
    /\ entry_namespace' = local_namespace
    /\ evalLog' = <<>>
    /\ exc' = NoExc
    /\ raw_result' = NoneV
    /\ exp_to_eval' = NoText
    /\ IF strip(text) = <<>>
       THEN /\ pc' = "returned"
            /\ ret' = NoRet
            /\ lines' = <<>>
            /\ count' = 0
            /\ target_unit' = NoText
       ELSE LET st == SplitTarget(strip(text))
            IN  /\ pc' = "loop"
                /\ ret' = NoRet
                /\ lines' = split(st.inp, <<",">>)
                /\ count' = 1
                /\ target_unit' = st.target_unit
    /\ UNCHANGED <<local_namespace, local_vars, program, requests, window, last_raw, converts, output>>

\* ---------------------------------------------- AstroCalculator.calculate
\* What one pass of the loop body does with the statement rawline:
\*   skip    the statement is empty or has no '='
\*   raise   the statement is rejected or its right-hand side fails
\*   assign  the right-hand side was evaluated; var is bound to val
\* evald is the text handed to parse_and_eval, if any.
Skip == [kind |-> "skip", var |-> <<>>, val |-> NoneV, err |-> "none", evald |-> <<>>]
Reject(kind) == [kind |-> "raise", var |-> <<>>, val |-> NoneV, err |-> kind, evald |-> <<>>]

\* (variant) the number of '=' is not checked: the text after the first
\* '=' is taken as the right-hand side
Statement_FirstEqualOnly(rawline, namespace) ==
    LET line == strip(rawline)
        items == split(line, <<"=">>)
        var == strip(items[1])
        value == join(Tail(items), <<"=">>)
        r == parse_and_eval(value, namespace)
    IN  IF line = <<>> \/ ~Contains(line, <<"=">>) THEN Skip
        ELSE IF Contains(var, <<" ">>) THEN Reject("SpaceInVariable")
        ELSE IF ~r.ok
             THEN [kind |-> "raise", var |-> var, val |-> NoneV, err |-> r.err,
                   evald |-> <<value>>]
             ELSE [kind |-> "assign", var |-> var, val |-> r.val, err |-> "none",
                   evald |-> <<value>>]

\* the loop body of AstroCalculator.calculate applied to one statement
Statement(rawline, namespace) ==
    LET line == strip(rawline)
        items == split(line, <<"=">>)
        var == strip(items[1])
        value == items[2]
        r == parse_and_eval(value, namespace)
    IN  IF line = <<>> \/ ~Contains(line, <<"=">>) THEN Skip
        ELSE IF Len(items) > 2 THEN Reject("MultipleEqualSigns")
        ELSE IF REQUIRE_UNDERSCORE /\ var[1] # "_" THEN Reject("NoUnderscore")
        ELSE IF Contains(var, <<" ">>) THEN Reject("SpaceInVariable")
        ELSE IF ~r.ok
             THEN [kind |-> "raise", var |-> var, val |-> NoneV, err |-> r.err,
                   evald |-> <<value>>]
             ELSE [kind |-> "assign", var |-> var, val |-> r.val, err |-> "none",
                   evald |-> <<value>>]

\* self.local_namespace[var] = result
Bind(namespace, var, val) ==
    [k \in DOMAIN namespace \cup {var} |-> IF k = var THEN val ELSE namespace[k]]

\* the effect of one iteration of "for count, line in enumerate(lines)"
\* whose statement has the outcome o
LoopBody(o) ==
    /\ pc = "loop"
    /\ exp_to_eval' = IF count = Len(lines)
                      THEN strip(split(strip(lines[count]), <<"=">>)[1])
                      ELSE exp_to_eval
    /\ evalLog' = evalLog \o o.evald
    /\ IF o.kind = "raise"
       THEN /\ exc' = EvalError(o.err)
            /\ pc' = "raised"
            /\ UNCHANGED <<local_namespace, count>>
       ELSE /\ local_namespace' = IF o.kind = "assign"
                                  THEN Bind(local_namespace, o.var, o.val)
                                  ELSE local_namespace
            /\ count' = count + 1
            /\ pc' = IF count = Len(lines) THEN "final" ELSE "loop"
            /\ UNCHANGED exc
    /\ UNCHANGED <<inp, lines, target_unit, raw_result, ret, entry_namespace,
                   local_vars, program, requests, window, last_raw, converts, output>>

\* (variant) every right-hand side is evaluated against the namespace the
\* call started with
LoopStep_Snapshot == pc = "loop" /\ LoopBody(Statement(lines[count], entry_namespace))

\* (variant) a failing statement is passed over and the loop goes on
LoopStep_Continue ==
    /\ pc = "loop"
    /\ LET o == Statement(lines[count], local_namespace)
       IN  LoopBody(IF o.kind = "raise" THEN [Skip EXCEPT !.evald = o.evald] ELSE o)

\* (variant) a failing statement undoes the assignments made before it
LoopStep_Rollback ==
    /\ pc = "loop"
    /\ LET o == Statement(lines[count], local_namespace)
       IN  IF o.kind = "raise"
           THEN /\ exc' = EvalError(o.err)
                /\ pc' = "raised"
                /\ local_namespace' = entry_namespace
                /\ evalLog' = evalLog \o o.evald
                /\ exp_to_eval' = IF count = Len(lines)
                                  THEN strip(split(strip(lines[count]), <<"=">>)[1])
                                  ELSE exp_to_eval
                /\ UNCHANGED <<count, inp, lines, target_unit, raw_result, ret,
                               entry_namespace, local_vars, program, requests, window, last_raw, converts, output>>
           ELSE LoopBody(o)

\* (variant) the assignment of the final statement is evaluated but its
\* variable is not bound
LoopStep_FinalNotBound ==
    /\ pc = "loop"
    /\ LET o == Statement(lines[count], local_namespace)
       IN  LoopBody(IF count = Len(lines) /\ o.kind = "assign"
                    THEN [Skip EXCEPT !.evald = o.evald] ELSE o)

\* one iteration of "for count, line in enumerate(lines)"
LoopStep == pc = "loop" /\ LoopBody(Statement(lines[count], local_namespace))

\* (variant) the evaluator remembers its last value under the name '_'
FinalEval_Remembers ==
    /\ pc = "final"
    /\ LET r == parse_and_eval(exp_to_eval, local_namespace)
       IN  /\ evalLog' = Append(evalLog, exp_to_eval)
           /\ IF r.ok
              THEN /\ raw_result' = r.val
                   /\ ret' = [NoRet EXCEPT !.parsed = r.parsed]
                   /\ pc' = "format"
                   /\ local_namespace' = Bind(local_namespace, <<"_">>, r.val)
                   /\ UNCHANGED exc
              ELSE /\ exc' = EvalError(r.err)
                   /\ pc' = "raised"
                   /\ UNCHANGED <<raw_result, ret, local_namespace>>
    /\ UNCHANGED <<inp, lines, count, exp_to_eval, target_unit,
                   entry_namespace, local_vars, program, requests, window, last_raw,
                   converts, output>>

\* parsed_expr, raw_result = self.parse_and_eval(exp_to_eval)
FinalEval ==
    /\ pc = "final"
    /\ LET r == parse_and_eval(exp_to_eval, local_namespace)
       IN  /\ evalLog' = Append(evalLog, exp_to_eval)
           /\ IF r.ok
              THEN /\ raw_result' = r.val
                   /\ ret' = [NoRet EXCEPT !.parsed = r.parsed]
                   /\ pc' = "format"
                   /\ UNCHANGED exc
              ELSE /\ exc' = EvalError(r.err)
                   /\ pc' = "raised"
                   /\ UNCHANGED <<raw_result, ret>>
    /\ UNCHANGED <<local_namespace, inp, lines, count, exp_to_eval, target_unit,
                   entry_namespace, local_vars, program, requests, window, last_raw, converts, output>>

\* formatted texts: the value in the SI or CGS base units, the
\* description of a unit or constant, or the text of an exception
FormatSI(v) == [t |-> "text", n |-> v.n, dim |-> v.dim, txt |-> "SI"]
FormatCGS(v) == [t |-> "text", n |-> v.n, dim |-> v.dim, txt |-> "CGS"]
Describe(v) == [t |-> "text", n |-> v.n, dim |-> v.dim, txt |-> "description"]
Diagnostic(msg) == [t |-> "text", n |-> 0, dim |-> NoDim, txt |-> msg]

\* the objects that have the attributes si and cgs (astropy's)
HasUnits(v) == v.t \in {"qty", "const", "unit"}
\* raw_result.cgs raises: EMConstant.cgs is overridden to raise TypeError
CgsRaises(v) == v.t = "const" /\ v.txt = "em"
\* raw_result.cgs of a unit: the CompositeUnit in CGS bases
UnitCGS(v) == [t |-> "unit", n |-> v.n, dim |-> v.dim, txt |-> "CGS"]

\* si_result: isinstance(raw_result.si, Quantity) holds for quantities and
\* constants, not for units
SIResult(v) == IF v.t \in {"qty", "const"} THEN FormatSI(v) ELSE Describe(v)

\* (variant) the CGS column is formatted without the try block's handler
CGSResult_Unguarded(v) == IF v.t = "unit" THEN UnitCGS(v) ELSE FormatCGS(v)

\* cgs_result: the try block around the CGS column
CGSResult(v) ==
    IF CgsRaises(v) THEN Diagnostic("TypeError")
    ELSE IF v.t = "unit" THEN UnitCGS(v)
    ELSE FormatCGS(v)

\* the text convert returns: the value in the target unit and the unit
Converted(quant, target) ==
    [t |-> "text", n |-> quant.n, dim |-> target.dim, txt |-> "converted"]

\* AstroCalculator.convert(quant, unit_name): the text, None, or the
\* exception that leaves it.  A missing attribute 'to' and astropy's
\* UnitConversionError are raised again as UnitConversionError; the KeyError
\* of the namespace lookup and the ValueError of Unit(name) are not caught.
convert(quant, unit_name, namespace) ==
    IF unit_name = <<>> THEN Ok(NoneV)
    ELSE IF quant.t = "int" THEN Ok(quant)
    ELSE IF ~HasUnits(quant) THEN Fail("UnitConversionError")
    ELSE IF unit_name \in user_units
    THEN IF unit_name \notin DOMAIN namespace THEN Fail("KeyError")
         ELSE IF ~HasUnits(namespace[unit_name]) /\ namespace[unit_name].t # "int"
              THEN Fail("TypeError")
         ELSE IF namespace[unit_name].dim # quant.dim THEN Fail("UnitConversionError")
         ELSE Ok(Converted(quant, namespace[unit_name]))
    ELSE IF unit_name \notin DOMAIN AstropyUnits THEN Fail("ValueError")
    ELSE IF AstropyUnits[unit_name].dim # quant.dim THEN Fail("UnitConversionError")
    ELSE Ok(Converted(quant, AstropyUnits[unit_name]))

\* (variant) an integer result is formatted like a float
Format_FormatsInt ==
    /\ pc = "format"
    /\ IF raw_result.t = "int" \/ HasUnits(raw_result)
       THEN /\ ret' = [ret EXCEPT !.raw = raw_result,
                                  !.si = IF raw_result.t = "int" THEN FormatSI(raw_result)
                                         ELSE SIResult(raw_result),
                                  !.cgs = IF raw_result.t = "int" THEN FormatSI(raw_result)
                                          ELSE CGSResult(raw_result),
                                  !.unit = target_unit]
            /\ pc' = "returned"
            /\ UNCHANGED exc
       ELSE /\ exc' = [type |-> "AttributeError", kind |-> "si"]
            /\ ret' = NoRet
            /\ pc' = "raised"
    /\ UNCHANGED <<local_namespace, inp, lines, count, exp_to_eval, target_unit,
                   raw_result, evalLog, entry_namespace, local_vars, program, requests, window, last_raw,
                   converts, output>>

\* the formatting part of calculate and its return
Format ==
    /\ pc = "format"
    /\ IF raw_result.t = "int"
       THEN /\ ret' = [ret EXCEPT !.raw = raw_result, !.si = raw_result,
                                  !.cgs = raw_result, !.unit = target_unit]
            /\ pc' = "returned"
            /\ UNCHANGED exc
       ELSE IF HasUnits(raw_result)
       THEN /\ ret' = [ret EXCEPT !.raw = raw_result,
                                  !.si = SIResult(raw_result),
                                  !.cgs = CGSResult(raw_result),
                                  !.unit = target_unit]
            /\ pc' = "returned"
            /\ UNCHANGED exc
       ELSE /\ exc' = [type |-> "AttributeError", kind |-> "si"]
            /\ ret' = NoRet
            /\ pc' = "raised"
    /\ UNCHANGED <<local_namespace, inp, lines, count, exp_to_eval, target_unit,
                   raw_result, evalLog, entry_namespace, local_vars, program, requests, window, last_raw, converts, output>>

\* ------------------------------------------------- src/calc/calc.py
\* the globals of the module calc.py: the constants, units and functions
\* it defines at load time and its other names
CalcGlobals == Override(ModuleGlobals, Registry)

\* calc.py parse_and_eval: no exception leaves it, the first component of
\* its result tells whether parsing or evaluation failed.  The entries of
\* local_vars_ are visible to eval() in front of the module's globals.
calc_parse_and_eval(expr, local_vars_) ==
    LET parsed == parse_expr(expr)
        result == PyEval(parsed.text, Override(CalcGlobals, local_vars_))
    IN  IF ~parsed.ok THEN Raised(expr, "ParseError")
        ELSE IF ~result.ok THEN Raised(parsed.text, result.err)
        ELSE Evaluated(parsed.text, result.val)

\* the tuple err, parsed_expr, ret_raw, ret_si, ret_cgs returned by calculate
CalcRet(err, parsed, raw, si, cgs) ==
    [err |-> err, parsed |-> parsed, raw |-> raw, si |-> si, cgs |-> cgs]

\* what the loop body of calc.py's calculate does with a non-final statement
CalcStatement(rawline, vars_) ==
    LET line == strip(rawline)
        items == split(line, <<"=">>)
        var == strip(items[1])
        value == items[2]
        r == calc_parse_and_eval(value, vars_)
    IN  IF Len(items) > 2 THEN Reject("MultipleEqualSigns")
        ELSE IF Len(items) = 1 THEN Skip
        ELSE IF REQUIRE_UNDERSCORE /\ var[1] # "_" THEN Reject("NoUnderscore")
        ELSE IF Contains(var, <<" ">>) THEN Reject("SpaceInVariable")
        ELSE [kind |-> "assign", var |-> var,
              val |-> IF r.ok THEN r.val ELSE StrV(r.err),
              err |-> IF r.ok THEN "none" ELSE r.err,
              evald |-> <<value>>]

\* calc.py calculate, up to the loop over the statements
CalcCalculate(text) ==
    /\ pc = "idle"
    /\ inp' = text
    /\ evalLog' = <<>>
    /\ exc' = NoExc
    /\ raw_result' = NoneV
    /\ local_vars' = NoVars
    /\ IF text = <<>>
       THEN /\ pc' = "calc_returned"
            /\ ret' = CalcRet(0, <<>>, EmptyText, EmptyText, EmptyText)
            /\ lines' = <<>>
            /\ count' = 0
            /\ exp_to_eval' = NoText
       ELSE IF Contains(strip(text), <<",">>)
       THEN /\ pc' = "calc_loop"
            /\ ret' = NoRet
            /\ lines' = split(strip(text), <<",">>)
            /\ count' = 1
            /\ exp_to_eval' = NoText
       ELSE /\ pc' = "calc_final"
            /\ ret' = NoRet
            /\ lines' = <<>>
            /\ count' = 0
            /\ exp_to_eval' = strip(text)
    /\ UNCHANGED <<local_namespace, entry_namespace, target_unit, program, requests, window, last_raw, converts, output>>

\* a caller invokes the calculate of calc.py with some input text
CalcCall ==
    /\ pc = "idle" /\ program = "calc.py"
    /\ \E text \in Inputs \cup ClauseInputs : CalcCalculate(text)

\* one iteration of "for count, line in enumerate(lines)" of calc.py
CalcLoopStep ==
    /\ pc = "calc_loop"
    /\ IF count >= Len(lines)
       THEN /\ exp_to_eval' = lines[count]
            /\ pc' = "calc_final"
            /\ UNCHANGED <<local_vars, count, evalLog, exc>>
       ELSE LET o == CalcStatement(lines[count], local_vars)
            IN  /\ evalLog' = evalLog \o o.evald
                /\ IF o.kind = "raise"
                   THEN /\ exc' = EvalError(o.err)
                        /\ pc' = "calc_raised"
                        /\ UNCHANGED <<local_vars, count>>
                   ELSE /\ local_vars' = IF o.kind = "assign"
                                         THEN Bind(local_vars, o.var, o.val)
                                         ELSE local_vars
                        /\ count' = count + 1
                        /\ pc' = "calc_loop"
                        /\ UNCHANGED exc
                /\ UNCHANGED exp_to_eval
    /\ UNCHANGED <<local_namespace, inp, lines, target_unit, raw_result, ret,
                   entry_namespace, program, requests, window, last_raw, converts, output>>

\* err, parsed_expr, Ret = parse_and_eval(inp, local_vars) and the
\* return of the failure tuple
CalcFinalEval ==
    /\ pc = "calc_final"
    /\ LET r == calc_parse_and_eval(exp_to_eval, local_vars)
       IN  /\ evalLog' = Append(evalLog, exp_to_eval)
           /\ IF r.ok
              THEN /\ raw_result' = r.val
                   /\ ret' = CalcRet(0, r.parsed, NoneV, NoneV, NoneV)
                   /\ pc' = "calc_format"
              ELSE /\ ret' = CalcRet(1, r.parsed, StrV(r.err), EmptyText, EmptyText)
                   /\ pc' = "calc_returned"
                   /\ UNCHANGED raw_result
    /\ UNCHANGED <<local_namespace, inp, lines, count, exp_to_eval, target_unit,
                   exc, entry_namespace, local_vars, program, requests, window, last_raw, converts, output>>

\* ret of calc.py: type(Ret.si) is Quantity holds for quantities only;
\* constants and units get their description
CalcSIResult(v) == IF v.t = "qty" THEN FormatSI(v) ELSE Describe(v)

\* the formatting part of calc.py's calculate and its return
CalcFormat ==
    /\ pc = "calc_format"
    /\ IF raw_result.t = "int"
       THEN /\ ret' = CalcRet(0, ret.parsed, raw_result, raw_result, raw_result)
            /\ pc' = "calc_returned"
            /\ UNCHANGED exc
       ELSE IF HasUnits(raw_result)
       THEN /\ ret' = CalcRet(0, ret.parsed, raw_result,
                              CalcSIResult(raw_result), CGSResult(raw_result))
            /\ pc' = "calc_returned"
            /\ UNCHANGED exc
       ELSE /\ exc' = [type |-> "AttributeError", kind |-> "si"]
            /\ ret' = NoRet
            /\ pc' = "calc_raised"
    /\ UNCHANGED <<local_namespace, inp, lines, count, exp_to_eval, target_unit,
                   raw_result, evalLog, entry_namespace, local_vars, program, requests, window, last_raw, converts, output>>

\* (variant) the interactive loop builds a new calculator for every
\* submission
Return_FreshCalculator ==
    /\ \/ program \in {"calc", "calc.py"} /\ Finished
       \/ program = "cli" /\ pc \in {"raised", "printed"}
       \/ program = "repl" /\ pc = "printed"
    /\ pc' = "idle"
    /\ inp' = <<>>
    /\ lines' = <<>>
    /\ count' = 0
    /\ exp_to_eval' = NoText
    /\ target_unit' = NoText
    /\ raw_result' = NoneV
    /\ ret' = NoRet
    /\ exc' = NoExc
    /\ evalLog' = <<>>
    /\ local_namespace' = IF program = "repl" THEN Registry ELSE local_namespace
    /\ entry_namespace' = local_namespace'
    /\ local_vars' = NoVars
    /\ converts' = <<>>
    /\ output' = <<>>
    /\ UNCHANGED <<program, requests, window, last_raw>>

\* the call is over: its frame (the locals of calculate) is discarded and
\* the caller has consumed the returned tuple or the exception
Return ==
    /\ \/ program \in {"calc", "calc.py"} /\ Finished
       \/ program = "cli" /\ pc \in {"raised", "printed"}
       \/ program = "repl" /\ pc = "printed"
    /\ pc' = "idle"
    /\ inp' = <<>>
    /\ lines' = <<>>
    /\ count' = 0
    /\ exp_to_eval' = NoText
    /\ target_unit' = NoText
    /\ raw_result' = NoneV
    /\ ret' = NoRet
    /\ exc' = NoExc
    /\ evalLog' = <<>>
    /\ entry_namespace' = local_namespace
    /\ local_vars' = NoVars
    /\ converts' = <<>>
    /\ output' = <<>>
    /\ UNCHANGED <<local_namespace, program, requests, window, last_raw>>

\* a caller invokes AstroCalculator.calculate with some input text
Call ==
    pc = "idle" /\ program = "calc" /\ \E text \in Inputs \cup ClauseInputs : Calculate(text)

\* one call of convert, as recorded in converts
ConvertCall(quant, unit_name, namespace) ==
    LET r == convert(quant, unit_name, namespace)
    IN  [quant |-> quant, unit |-> unit_name, ok |-> r.ok, val |-> r.val, err |-> r.err]

\* one printed item
Printed(kind, v) == [kind |-> kind, val |-> v, text |-> <<>>]
PrintedText(kind, text) == [kind |-> kind, val |-> NoneV, text |-> text]

\* "if target_unit and ret_raw is not None": the conversion of the
\* result to the requested unit is attempted
WantsConversion(r) == r.unit # NoText /\ r.unit # <<>> /\ r.raw # NoneV

\* what is printed for the requested conversion cv: the converted text,
\* the message of a UnitConversionError, or nothing (None was returned, or
\* another exception was caught and dropped)
ConversionOutput(cv) ==
    IF cv.ok THEN (IF cv.val # NoneV THEN <<Printed("converted", cv.val)>> ELSE <<>>)
    ELSE IF cv.err = "UnitConversionError"
         THEN <<Printed("convert_error", Diagnostic(cv.err))>>
    ELSE <<>>

\* execute_calculation: parse_input and the call of calculate
ExecCall ==
    /\ pc = "idle" /\ program = "cli"
    /\ \E text \in ClauseInputs \cup {<<>>, <<" ">>} : Calculate(parse_input(text))

\* (variant) the conversion is attempted a second time
ExecTail_Twice ==
    /\ program = "cli" /\ pc = "returned"
    /\ LET cvs == IF WantsConversion(ret)
                  THEN <<ConvertCall(ret.raw, ret.unit, local_namespace),
                         ConvertCall(ret.raw, ret.unit, local_namespace)>>
                  ELSE <<>>
       IN  /\ converts' = cvs
           /\ output' = <<PrintedText("parsed", ret.parsed), Printed("si", ret.si),
                           Printed("cgs", ret.cgs)>>
                         \o (IF cvs = <<>> THEN <<>> ELSE ConversionOutput(cvs[1]))
    /\ pc' = "printed"
    /\ UNCHANGED <<local_namespace, inp, lines, count, exp_to_eval, target_unit,
                   raw_result, ret, exc, evalLog, entry_namespace, local_vars,
                   program, requests, window, last_raw>>

\* execute_calculation after calculate has returned: the conversion to
\* the target unit and the print of the output
ExecTail ==
    /\ program = "cli" /\ pc = "returned"
    /\ LET cvs == IF WantsConversion(ret)
                  THEN <<ConvertCall(ret.raw, ret.unit, local_namespace)>> ELSE <<>>
       IN  /\ converts' = cvs
           /\ output' = <<PrintedText("parsed", ret.parsed), Printed("si", ret.si),
                           Printed("cgs", ret.cgs)>>
                         \o (IF cvs = <<>> THEN <<>> ELSE ConversionOutput(cvs[1]))
    /\ pc' = "printed"
    /\ UNCHANGED <<local_namespace, inp, lines, count, exp_to_eval, target_unit,
                   raw_result, ret, exc, evalLog, entry_namespace, local_vars,
                   program, requests, window, last_raw>>

\* main_interactive: the collected submission is a standalone 'in <unit>'
\* request: the stored ret_raw is converted, calculate is not called
ReplConvert(text) ==
    /\ inp' = text
    /\ pc' = "printed"
    /\ IF last_raw = NoneV
       THEN converts' = <<>> /\ output' = <<>>
       ELSE LET cv == ConvertCall(last_raw, strip(SubSeq(text, 3, Len(text))),
                                  local_namespace)
            IN  /\ converts' = <<cv>>
                /\ output' = IF cv.ok
                             THEN (IF cv.val # NoneV THEN <<Printed("converted", cv.val)>>
                                   ELSE <<>>)
                             ELSE <<Printed("error", Diagnostic(cv.err))>>
    /\ UNCHANGED <<local_namespace, lines, count, exp_to_eval, target_unit,
                   raw_result, ret, exc, evalLog, entry_namespace, local_vars,
                   program, requests, window, last_raw>>

\* main_interactive: "if inp == 'q': return"
ReplQuit(text) ==
    /\ inp' = text
    /\ pc' = "exited"
    /\ UNCHANGED <<local_namespace, lines, count, exp_to_eval, target_unit,
                   raw_result, ret, exc, evalLog, entry_namespace, local_vars,
                   program, requests, window, last_raw, converts, output>>

\* inp.startswith('save '), inp.startswith('history'), inp == 'help'
IsSpecial(text) ==
    \/ Len(text) >= 2 /\ text[1] = "save" /\ text[2] = " "
    \/ text # <<>> /\ text[1] = "history"
    \/ text = <<"help">>

\* main_interactive: a special command prints its text; the calculator is
\* not involved
ReplSpecial(text) ==
    /\ inp' = text
    /\ pc' = "printed"
    /\ converts' = <<>>
    /\ output' = <<PrintedText("command", text)>>
    /\ UNCHANGED <<local_namespace, lines, count, exp_to_eval, target_unit,
                   raw_result, ret, exc, evalLog, entry_namespace, local_vars,
                   program, requests, window, last_raw>>

\* main_interactive: one pass of "while True" up to the call of calculate
ReplSubmit ==
    /\ pc = "idle" /\ program = "repl"
    /\ \E typed \in Submissions :
          LET text == join(CollectLines(typed), <<",", " ">>)
          IN  /\ text # <<>>
              /\ IF text = <<"q">> THEN ReplQuit(text)
                 ELSE IF IsSpecial(text) THEN ReplSpecial(text)
                 ELSE IF Len(text) > 2 /\ StartsWithIn(text) THEN ReplConvert(text)
                 ELSE Calculate(ReplaceSemicolons(text))

\* (variant) a failed calculation clears the stored ret_raw
ReplTail_Forgets ==
    /\ program = "repl" /\ pc \in {"returned", "raised"}
    /\ IF pc = "returned"
       THEN LET cvs == IF WantsConversion(ret)
                       THEN <<ConvertCall(ret.raw, ret.unit, local_namespace)>> ELSE <<>>
            IN  /\ converts' = cvs
                /\ output' = <<PrintedText("parsed", ret.parsed), Printed("si", ret.si),
                                Printed("cgs", ret.cgs)>>
                              \o (IF cvs = <<>> THEN <<>> ELSE ConversionOutput(cvs[1]))
                /\ last_raw' = ret.raw
       ELSE /\ converts' = <<>>
            /\ output' = <<Printed(IF exc.type = "EvalError" THEN "error" ELSE "uncaught",
                                    Diagnostic(exc.kind))>>
            /\ last_raw' = NoneV
    /\ pc' = "printed"
    /\ UNCHANGED <<local_namespace, inp, lines, count, exp_to_eval, target_unit,
                   raw_result, ret, exc, evalLog, entry_namespace, local_vars, program, requests, window>>

\* main_interactive after calculate: the results and the requested
\* conversion are printed and ret_raw is replaced, or the exception is
\* caught and printed and ret_raw keeps its value
ReplTail ==
    /\ program = "repl" /\ pc \in {"returned", "raised"}
    /\ IF pc = "returned"
       THEN LET cvs == IF WantsConversion(ret)
                       THEN <<ConvertCall(ret.raw, ret.unit, local_namespace)>> ELSE <<>>
            IN  /\ converts' = cvs
                /\ output' = <<PrintedText("parsed", ret.parsed), Printed("si", ret.si),
                                Printed("cgs", ret.cgs)>>
                              \o (IF cvs = <<>> THEN <<>> ELSE ConversionOutput(cvs[1]))
                /\ last_raw' = ret.raw
       ELSE /\ converts' = <<>>
            /\ output' = <<Printed(IF exc.type = "EvalError" THEN "error" ELSE "uncaught",
                                    Diagnostic(exc.kind))>>
            /\ UNCHANGED last_raw
    /\ pc' = "printed"
    /\ UNCHANGED <<local_namespace, inp, lines, count, exp_to_eval, target_unit,
                   raw_result, ret, exc, evalLog, entry_namespace, local_vars, program, requests, window>>

\* ------------------------------------------------ the web applications
\* src/calc/app.py (calculate) and src/astrocalculator/app.py (index): a
\* POST request hands the form field to execute_calculation of calc.py and
\* unpacks the tuple it returns.  The texts and the user units a form sends:
WebInputs ==
    { <<"a", " ", "=", " ", "2", ",", " ", "a">>,                 \* a = 2, a
      <<"a">>,                                                    \* a
      <<"c">>,                                                    \* c
      <<"2", " ", "*">>,                                          \* 2 *
      <<"a", " ", "=", " ", "b", " ", "=", " ", "2", ",", " ", "a">> }  \* a = b = 2, a
WebUnits == { NoText, <<"m">> }

\* calc.py convert(quant, userunit); its exceptions are caught by
\* execute_calculation and shown as "Error: ..."
calc_convert(quant, userunit) ==
    IF userunit = <<>> THEN Ok(NoneV)
    ELSE IF quant.t = "int" THEN Ok(quant)
    ELSE IF ~HasUnits(quant) THEN Fail("AttributeError")
    ELSE IF userunit \in user_units
    THEN IF userunit \notin DOMAIN CalcGlobals THEN Fail("NameError")
         ELSE IF ~HasUnits(CalcGlobals[userunit]) THEN Fail("TypeError")
         ELSE IF CalcGlobals[userunit].dim # quant.dim THEN Fail("UnitConversionError")
         ELSE Ok(Converted(quant, CalcGlobals[userunit]))
    ELSE IF userunit \notin DOMAIN AstropyUnits THEN Fail("ValueError")
    ELSE IF AstropyUnits[userunit].dim # quant.dim THEN Fail("UnitConversionError")
    ELSE Ok(Converted(quant, AstropyUnits[userunit]))

\* the frame of a request at the entry of calc.py's calculate, called by
\* execute_calculation with parse_input(inp); table is the content of
\* local_vars right after "local_vars = {}"
CalcEnter(text, units, table) ==
    LET t == parse_input(text)
        f == [IdleFrame EXCEPT !.inp = text, !.units = units, !.local_vars = table]
    IN  IF t = <<>>
        THEN [f EXCEPT !.pc = "calc_returned",
                       !.ret = CalcRet(0, <<>>, EmptyText, EmptyText, EmptyText)]
        ELSE IF Contains(strip(t), <<",">>)
        THEN [f EXCEPT !.pc = "calc_loop", !.lines = split(strip(t), <<",">>),
                       !.count = 1]
        ELSE [f EXCEPT !.pc = "calc_final", !.exp_to_eval = strip(t)]

\* one step of calc.py's calculate in the frame f: a pass of the loop, the
\* evaluation of the last line, or the formatting and the return
CalcAdvance(f) ==
    IF f.pc = "calc_loop"
    THEN IF f.count >= Len(f.lines)
         THEN [f EXCEPT !.exp_to_eval = f.lines[f.count], !.pc = "calc_final"]
         ELSE LET o == CalcStatement(f.lines[f.count], f.local_vars)
              IN  IF o.kind = "raise"
                  THEN [f EXCEPT !.exc = EvalError(o.err), !.pc = "calc_raised"]
                  ELSE [f EXCEPT !.local_vars = IF o.kind = "assign"
                                                THEN Bind(f.local_vars, o.var, o.val)
                                                ELSE f.local_vars,
                                 !.count = f.count + 1]
    ELSE IF f.pc = "calc_final"
    THEN LET r == calc_parse_and_eval(f.exp_to_eval, f.local_vars)
         IN  IF r.ok
             THEN [f EXCEPT !.raw_result = r.val,
                            !.ret = CalcRet(0, r.parsed, NoneV, NoneV, NoneV),
                            !.pc = "calc_format"]
             ELSE [f EXCEPT !.ret = CalcRet(1, r.parsed, StrV(r.err), EmptyText, EmptyText),
                            !.pc = "calc_returned"]
    ELSE IF f.raw_result.t = "int"
    THEN [f EXCEPT !.ret = CalcRet(0, f.ret.parsed, f.raw_result, f.raw_result,
                                   f.raw_result),
                   !.pc = "calc_returned"]
    ELSE IF HasUnits(f.raw_result)
    THEN [f EXCEPT !.ret = CalcRet(0, f.ret.parsed, f.raw_result,
                                   CalcSIResult(f.raw_result), CGSResult(f.raw_result)),
                   !.pc = "calc_returned"]
    ELSE [f EXCEPT !.exc = [type |-> "AttributeError", kind |-> "si"],
                   !.pc = "calc_raised"]

\* result_user_units of execute_calculation
UserUnitsResult(raw, units) ==
    IF units = NoText THEN StrV("none")
    ELSE LET cv == calc_convert(raw, strip(units))
         IN  IF cv.ok THEN cv.val ELSE Diagnostic(cv.err)

\* the tuple calc.py's execute_calculation returns for the tuple f.ret of
\* calculate: four elements on either path
ExecResult(f) ==
    IF f.ret.err = 1
    THEN <<PrintedText("parsed", f.ret.parsed), Printed("raw", f.ret.raw),
           Printed("empty", EmptyText), Printed("empty", EmptyText)>>
    ELSE <<PrintedText("parsed", f.ret.parsed), Printed("si", f.ret.si),
           Printed("cgs", f.ret.cgs),
           Printed("user", UserUnitsResult(f.ret.raw, f.units))>>

\* the number of names the handler unpacks the tuple into
UnpackTargets == IF program = "calc/app.py" THEN 3 ELSE 4

\* the response of the handler: the rendered page, or the error page for
\* the exception that left the handler (of calculate, or of the unpacking)
Handle(f) ==
    IF f.pc = "calc_raised"
    THEN [status |-> 500, error |-> f.exc.type, page |-> <<>>]
    ELSE IF Len(ExecResult(f)) # UnpackTargets
    THEN [status |-> 500, error |-> "ValueError", page |-> <<>>]
    ELSE [status |-> 200, error |-> "none", page |-> ExecResult(f)]

WebUnchanged ==
    UNCHANGED <<local_namespace, pc, inp, lines, count, exp_to_eval, target_unit,
                raw_result, ret, exc, evalLog, entry_namespace, local_vars, program,
                window, last_raw, converts, output>>

\* (variant) the variable table is a table of the module, shared by the
\* requests in flight
WebRequest_SharedTable(r) ==
    /\ program \in WebPrograms /\ requests[r].pc = "idle"
    /\ \E text \in WebInputs :
       \E units \in IF program = "calc/app.py" THEN {NoText} ELSE WebUnits :
       \E other \in RequestIds \ {r} :
          requests' = [requests EXCEPT
                          ![r] = CalcEnter(text, units, requests[other].local_vars)]
    /\ WebUnchanged

\* a POST request arrives: the handler calls execute_calculation, which
\* enters calculate
WebRequest(r) ==
    /\ program \in WebPrograms /\ requests[r].pc = "idle"
    /\ \E text \in WebInputs :
       \E units \in IF program = "calc/app.py" THEN {NoText} ELSE WebUnits :
          requests' = [requests EXCEPT ![r] = CalcEnter(text, units, NoVars)]
    /\ WebUnchanged

\* the calculate of request r takes one step
WebStep(r) ==
    /\ program \in WebPrograms
    /\ requests[r].pc \in {"calc_loop", "calc_final", "calc_format"}
    /\ requests' = [requests EXCEPT ![r] = CalcAdvance(requests[r])]
    /\ WebUnchanged

\* calculate is over: execute_calculation returns its tuple, the handler
\* unpacks it and renders the page
WebRespond(r) ==
    /\ program \in WebPrograms
    /\ requests[r].pc \in {"calc_returned", "calc_raised"}
    /\ requests' = [requests EXCEPT ![r].response = Handle(requests[r]),
                                    ![r].pc = "responded"]
    /\ WebUnchanged

\* the response is sent and the frames of the request are discarded
WebDone(r) ==
    /\ program \in WebPrograms /\ requests[r].pc = "responded"
    /\ requests' = [requests EXCEPT ![r] = IdleFrame]
    /\ WebUnchanged

\* ------------------------------------------------------------ src/acap.py
\* The texts typed into the input entry and into the user-unit entry.
GuiInputs ==
    { <<>>,
      <<"c">>,                                          \* a constant
      <<"e">>,                                          \* the constant e: no CGS value
      <<"2">>,                                          \* an integer
      <<"xyz">>,                                        \* an unknown name
      <<"2", " ", "*">> }                               \* dangling operator
GuiUnits == { <<>>, <<"m">> }

\* the globals of acap.py, against which eval(inp) resolves names
GuiGlobals == Registry

\* evaluate_user with the unit text in the user entry, given the labels w:
\* the text of out_user afterwards.  An exception other than
\* UnitConversionError and ValueError leaves the callback and the label
\* keeps its text.  (The units typed here are names of astropy, none of
\* UNITS_USER.)
UserRow(w, unit) ==
    IF unit = <<>> THEN EmptyText
    ELSE IF w.Ret = NoneV THEN w.out_user
    ELSE IF w.Ret.t = "int" THEN w.Ret
    ELSE IF ~HasUnits(w.Ret) THEN w.out_user
    ELSE IF unit \notin DOMAIN AstropyUnits THEN Diagnostic("ValueError")
    ELSE IF AstropyUnits[unit].dim # w.Ret.dim THEN Diagnostic("UnitConversionError")
    ELSE Converted(w.Ret, AstropyUnits[unit])

\* the window after calculate(event) has handled the input text
AfterCalculate(w, text) ==
    LET parsed == parse_expr(text)
        r == PyEval(parsed.text, GuiGlobals)
        typed == [w EXCEPT !.inp = text]
        shown == [typed EXCEPT !.input_parse = parsed.text]
        stored == [shown EXCEPT !.Ret = r.val, !.row0 = "Outputs:"]
        withSI == [stored EXCEPT !.out_si = CalcSIResult(r.val)]
        withCGS == IF CgsRaises(r.val) THEN [withSI EXCEPT !.row0 = "TypeError"]
                   ELSE [withSI EXCEPT !.out_cgs = CGSResult(r.val)]
    IN  IF text = <<>>
        THEN [typed EXCEPT !.out_cgs = EmptyText, !.out_si = EmptyText,
                           !.out_user = EmptyText]
        ELSE IF ~parsed.ok THEN typed
        ELSE IF ~r.ok
        THEN [shown EXCEPT !.out_cgs = EmptyText, !.out_si = EmptyText,
                           !.row0 = r.err]
        ELSE IF r.val.t = "int"
        THEN LET numbers == [stored EXCEPT !.out_cgs = r.val, !.out_si = r.val]
             IN  [numbers EXCEPT !.out_user = UserRow(numbers, w.ent_user)]
        ELSE IF ~HasUnits(r.val) THEN stored
        ELSE [withCGS EXCEPT !.out_user = UserRow(withCGS, w.ent_user)]

GuiUnchanged ==
    UNCHANGED <<local_namespace, pc, inp, lines, count, exp_to_eval, target_unit,
                raw_result, ret, exc, evalLog, entry_namespace, local_vars, program,
                requests, last_raw, converts, output>>

\* the user types an input and presses <Return>: calculate(event)
GuiCalculate ==
    /\ program = "gui"
    /\ \E text \in GuiInputs : window' = AfterCalculate(window, text)
    /\ GuiUnchanged

\* the user types a unit into the user entry and presses <Return>:
\* evaluate_user(event)
GuiEvaluateUser ==
    /\ program = "gui"
    /\ \E unit \in GuiUnits :
          window' = [window EXCEPT !.ent_user = unit,
                                   !.out_user = UserRow(window, unit)]
    /\ GuiUnchanged

Next ==
    \/ Call
    \/ LoopStep
    \/ FinalEval
    \/ Format
    \/ CalcCall
    \/ CalcLoopStep
    \/ CalcFinalEval
    \/ CalcFormat
    \/ ExecCall
    \/ ExecTail
    \/ ReplSubmit
    \/ ReplTail
    \/ Return
    \/ \E r \in RequestIds : WebRequest(r)
    \/ \E r \in RequestIds : WebStep(r)
    \/ \E r \in RequestIds : WebRespond(r)
    \/ \E r \in RequestIds : WebDone(r)
    \/ GuiCalculate
    \/ GuiEvaluateUser

Spec == Init /\ [][Next]_vars

\* ------------------------------------------- sequential reference semantics
\* The statements ls[1..k] taken one after the other, each against the
\* namespace left by the ones before it, stopping at the first that fails:
\* ok, the namespace reached, the index of the failing statement (0: none)
\* and the right-hand sides evaluated on the way.
SeqStep(acc, line, i) ==
    LET o == Statement(line, acc.ns)
    IN  IF o.kind = "raise"
        THEN [ok |-> FALSE, ns |-> acc.ns, at |-> i, log |-> acc.log \o o.evald,
              err |-> o.err]
        ELSE IF o.kind = "assign"
        THEN [acc EXCEPT !.ns = Bind(acc.ns, o.var, o.val), !.log = acc.log \o o.evald]
        ELSE acc

RECURSIVE SeqFrom(_, _, _, _)
SeqFrom(acc, ls, i, k) ==
    IF i > k \/ ~acc.ok THEN acc
    ELSE SeqFrom(SeqStep(acc, ls[i], i), ls, i + 1, k)

Sequential(ns, ls, k) ==
    SeqFrom([ok |-> TRUE, ns |-> ns, at |-> 0, log |-> <<>>, err |-> "none"], ls, 1, k)

\* the call is inside calculate, past the split, and has not failed
Running == pc \in {"loop", "final", "format", "returned"} /\ lines # <<>>
\* the call failed while processing statement number count
FailedInLoop == pc = "raised" /\ exc.type = "EvalError" /\ count <= Len(lines)
\* the call failed in the evaluation of the terminal expression
FailedAtTerminal == pc = "raised" /\ exc.type = "EvalError" /\ count > Len(lines)

\* the names of the text
NamesOf(text) == {text[i] : i \in {j \in 1..Len(text) : IsName(text[j])}}

\* C1: the statements of one input are processed in input order and each
\* right-hand side, and the terminal expression, is evaluated against the
\* namespace left by all earlier assignments of the input: as long as the
\* call has not failed its namespace is the one the sequential semantics
\* gives for the statements processed so far, a call fails in the loop
\* only where the sequential semantics fails, and the terminal value is the
\* value of the terminal expression in the namespace after all statements.
C1_SequentialVisibility ==
    /\ Running =>
          LET r == Sequential(entry_namespace, lines, count - 1)
          IN  /\ r.ok
              /\ r.ns = local_namespace
              /\ evalLog = r.log \o (IF pc \in {"format", "returned"}
                                     THEN <<exp_to_eval>> ELSE <<>>)
              /\ pc \in {"format", "returned"} =>
                    LET all == Sequential(entry_namespace, lines, Len(lines))
                        v == parse_and_eval(exp_to_eval, all.ns)
                    IN  v.ok /\ raw_result = v.val
    /\ FailedInLoop => Sequential(entry_namespace, lines, Len(lines)).at = count

\* 'a = 2, b = a * 3, b' has returned the terminal value 6
C1_Witness ==
    /\ pc = "returned"
    /\ inp = <<"a", " ", "=", " ", "2", ",", " ",
               "b", " ", "=", " ", "a", " ", "*", " ", "3", ",", " ", "b">>
    /\ ret.raw = IntV(6)

\* C2 (as claimed): a statement that is evaluated and references a name
\* that is not bound in the namespace (registry, earlier statements) fails
\* with NameError and the call yields an error.
C2_UnboundNameRaises ==
    [][ /\ (pc = "final" /\ parse_expr(exp_to_eval).ok
              /\ \E nm \in NamesOf(exp_to_eval) : <<nm>> \notin DOMAIN local_namespace)
           => (pc' = "raised" /\ exc'.kind = "NameError")
        /\ (pc = "loop" /\ Statement(lines[count], local_namespace).evald # <<>>
              /\ LET value == Statement(lines[count], local_namespace).evald[1]
                 IN  /\ parse_expr(value).ok
                     /\ \E nm \in NamesOf(value) : <<nm>> \notin DOMAIN local_namespace)
           => (pc' = "raised" /\ exc'.kind = "NameError") ]_vars

\* C3: the first failing statement ends the call: the call is then in
\* the failed state with an EvalError carrying that statement's error,
\* nothing after the failing statement has been handed to the evaluator
\* (the terminal expression included), no result exists, and from the
\* failed state nothing is evaluated or bound any more.  Conversely a call
\* gets past the loop only if no statement fails.
C3_FirstFailureAborts ==
    /\ [](FailedInLoop =>
            LET r == Sequential(entry_namespace, lines, Len(lines))
            IN  /\ ~r.ok /\ r.at = count /\ exc = EvalError(r.err)
                /\ evalLog = r.log
                /\ raw_result = NoneV /\ ret = NoRet)
    /\ []((pc \in {"final", "format", "returned"} /\ lines # <<>>)
             => Sequential(entry_namespace, lines, Len(lines)).ok)
    /\ [][pc = "raised" => (/\ pc' \in {"idle", "printed"}
                            /\ local_namespace' = local_namespace
                            /\ evalLog' \in {evalLog, <<>>})]_vars

\* 'a = 2, b = 2 *, b': the second statement failed, the third was not run
C3_Witness ==
    /\ FailedInLoop
    /\ count = 2 /\ Len(lines) = 3
    /\ exc = EvalError("ParseError")
    /\ evalLog = << <<" ", "2">>, <<" ", "2", " ", "*">> >>

\* the variables assigned by the statements ls[1..k] that are assignments
AssignedVars(ls, k) ==
    {strip(split(strip(ls[j]), <<"=">>)[1]) :
        j \in {i \in 1..k : Len(split(strip(ls[i]), <<"=">>)) = 2}}

SameBinding(key, ns1, ns2) ==
    \/ key \notin DOMAIN ns1 /\ key \notin DOMAIN ns2
    \/ key \in DOMAIN ns1 /\ key \in DOMAIN ns2 /\ ns1[key] = ns2[key]

\* C5 (as claimed): when statement k fails, the variable of the failing
\* statement and of every later statement has the binding it had before
\* the call.
C5_LaterVariablesAsBeforeCall ==
    FailedInLoop =>
        \A j \in count..Len(lines) :
            Contains(lines[j], <<"=">>) =>
                SameBinding(strip(split(strip(lines[j]), <<"=">>)[1]),
                            local_namespace, entry_namespace)

\* C5 (amended): when statement k fails, or the terminal expression fails
\* after k-1 statements, the namespace is the namespace before the call
\* with the assignments of statements 1..k-1 applied in order: every name
\* assigned by none of them has the binding it had before the call.
C5_CommittedUpToFailure ==
    (FailedInLoop \/ FailedAtTerminal) =>
        LET r == Sequential(entry_namespace, lines, count - 1)
        IN  /\ r.ok
            /\ local_namespace = r.ns
            /\ \A key \in DOMAIN local_namespace \cup DOMAIN entry_namespace :
                  key \notin AssignedVars(lines, count - 1)
                     => SameBinding(key, local_namespace, entry_namespace)

\* 'a = 2, b = a * 3, a = b = 2' failed at the third statement with a and b bound
C5_Witness ==
    /\ FailedInLoop /\ count = 3
    /\ <<"a">> \notin DOMAIN entry_namespace
    /\ <<"b">> \notin DOMAIN entry_namespace
    /\ <<"a">> \in DOMAIN local_namespace /\ local_namespace[<<"a">>] = IntV(2)
    /\ <<"b">> \in DOMAIN local_namespace /\ local_namespace[<<"b">>] = IntV(6)

\* C6 (as claimed): the binding of every registry name is at all times
\* the one it had right after initialization.
C6_GlobalLayerImmutable ==
    \A key \in DOMAIN Registry :
        key \in DOMAIN local_namespace /\ local_namespace[key] = Registry[key]

\* C7 (as claimed): once the input that shadowed a global name has
\* finished, a later invocation resolves the name to the original global:
\* a later call with the input 'c' returns the constant c.
C7_ShadowEndsWithInput ==
    (pc = "returned" /\ inp = <<"c">>) => ret.raw = c_light

\* number of '=' in a text, and the trimmed text in front of the first '='
NumEqual(text) == Cardinality({i \in 1..Len(text) : text[i] = "="})
LeftOf(text) ==
    strip(SubSeq(text, 1, Min({i \in 1..Len(text) : text[i] = "="}) - 1))
HasWhitespace(text) == \E i \in 1..Len(text) : text[i] \in Whitespace

\* C4 (as claimed): in the calculate of calc.py, when the right-hand
\* side of a non-final assignment fails to parse or to evaluate, the call
\* ends there reporting the failure: the variable is not bound, and neither
\* a later statement nor the terminal expression is processed.
C4_FailedAssignmentAborts ==
    [][ (/\ pc = "calc_loop" /\ count < Len(lines)
         /\ NumEqual(lines[count]) = 1
         /\ ~Contains(LeftOf(lines[count]), <<" ">>)
         /\ ~calc_parse_and_eval(split(lines[count], <<"=">>)[2], local_vars).ok)
        => (/\ local_vars' = local_vars
            /\ \/ pc' = "calc_raised"
               \/ pc' = "calc_returned" /\ ret'.err = 1) ]_vars

\* C8 (as claimed): no exception leaves a public entry point; every call
\* ends by returning a tagged value.
C8_NoExceptionEscapes == exc = NoExc /\ pc \notin {"raised", "calc_raised"}

\* C9 (as claimed): a statement with more than one '=' makes calculate
\* fail with the assignment error 'multiple equal signs' at whichever
\* position it stands, the final one included, in both modules.
C9_RejectedAtEveryPosition ==
    [][ /\ (pc = "loop" /\ NumEqual(lines[count]) > 1)
           => (pc' = "raised" /\ exc' = EvalError("MultipleEqualSigns"))
        /\ (pc = "calc_loop" /\ count < Len(lines) /\ NumEqual(lines[count]) > 1)
           => (pc' = "calc_raised" /\ exc' = EvalError("MultipleEqualSigns"))
        /\ (pc = "calc_final" /\ NumEqual(exp_to_eval) > 1)
           => (pc' = "calc_raised" /\ exc' = EvalError("MultipleEqualSigns")) ]_vars

\* C9 (amended): a statement with more than one '=' that the loop of
\* calculate reaches is rejected with EvalError 'Multiple equal signs'
\* before its right-hand side is evaluated and without any binding: in
\* AstroCalculator.calculate at every position of the sequence, the last
\* included; in the calculate of calc.py at every position but the last.
\* There the last statement is not split at '=': it is handed whole to
\* parse_and_eval and the call returns err = 1 with the parser's message,
\* also with nothing bound.
C9_MultipleEqualsRejected ==
    [][ /\ (pc = "loop" /\ NumEqual(lines[count]) > 1)
           => /\ pc' = "raised" /\ exc' = EvalError("MultipleEqualSigns")
              /\ evalLog' = evalLog /\ local_namespace' = local_namespace
        /\ (pc = "calc_loop" /\ count < Len(lines) /\ NumEqual(lines[count]) > 1)
           => /\ pc' = "calc_raised" /\ exc' = EvalError("MultipleEqualSigns")
              /\ evalLog' = evalLog /\ local_vars' = local_vars
        /\ (pc = "calc_final" /\ NumEqual(exp_to_eval) > 1)
           => /\ pc' = "calc_returned" /\ exc' = NoExc
              /\ ret'.err = 1 /\ ret'.raw = StrV("ParseError")
              /\ local_vars' = local_vars ]_vars

\* AstroCalculator.calculate rejected 'a = b = 2' standing last, after
\* an assignment that was carried out
C9_Witness ==
    /\ pc = "raised" /\ exc = EvalError("MultipleEqualSigns")
    /\ count = Len(lines) /\ count > 1
    /\ NumEqual(lines[count]) = 2
    /\ local_namespace # entry_namespace

\* C10 (as claimed): an assignment whose trimmed left-hand side contains
\* whitespace is rejected with the assignment error about spaces; its
\* right-hand side is not evaluated and nothing is bound.
C10_WhitespaceNameRejected ==
    [][ /\ (pc = "loop" /\ NumEqual(lines[count]) = 1
              /\ HasWhitespace(LeftOf(lines[count])))
           => /\ pc' = "raised" /\ exc' = EvalError("SpaceInVariable")
              /\ evalLog' = evalLog /\ local_namespace' = local_namespace
        /\ (pc = "calc_loop" /\ count < Len(lines) /\ NumEqual(lines[count]) = 1
              /\ HasWhitespace(LeftOf(lines[count])))
           => /\ pc' = "calc_raised" /\ exc' = EvalError("SpaceInVariable")
              /\ evalLog' = evalLog /\ local_vars' = local_vars ]_vars

\* the calls that run AstroCalculator.calculate, past its entry
InCalculate == pc \in {"loop", "final", "format", "returned", "raised"}
Max(S) == CHOOSE x \in S : \A y \in S : x >= y
\* the final statement of a text, and the unit text of its trailing clause
FinalStatement(text) ==
    LET parts == split(strip(text), <<",">>) IN parts[Len(parts)]
ClauseUnit(stmt) ==
    strip(SubSeq(stmt, Max(Occurrences(stmt, InClause)) + Len(InClause), Len(stmt)))

\* C11 (as claimed): whenever the final statement of the input ends in a
\* clause ' in <unit-text>', calculate records the trimmed unit text as the
\* target unit and no text it hands to the evaluator contains the clause.
C11_ClauseStripped ==
    (InCalculate /\ strip(inp) # <<>> /\ Contains(FinalStatement(inp), InClause)) =>
        /\ target_unit = ClauseUnit(FinalStatement(inp))
        /\ \A i \in 1..Len(evalLog) : ~Contains(evalLog[i], <<"in">>)
        /\ exp_to_eval # NoText => ~Contains(exp_to_eval, <<"in">>)

\* C12 (as claimed): for an empty or blank input both calculate functions
\* return the empty result without error, evaluate nothing and leave the
\* namespace (the variable table) as it was.
C12_EmptyInputEmptyResult ==
    /\ (InCalculate /\ strip(inp) = <<>>) =>
          /\ pc = "returned" /\ ret = NoRet /\ exc = NoExc
          /\ evalLog = <<>> /\ local_namespace = entry_namespace
    /\ (pc \in {"calc_loop", "calc_format", "calc_raised"}) => strip(inp) # <<>>
    /\ (pc = "calc_returned" /\ strip(inp) = <<>>) =>
          /\ exc = NoExc /\ ret.err = 0
          /\ ret.raw = EmptyText /\ ret.si = EmptyText /\ ret.cgs = EmptyText
          /\ evalLog = <<>> /\ local_vars = NoVars

\* C13: a terminal result that is a dimensionless integer n is returned
\* as it is in the SI column (the integer, not a formatted text, no unit)
\* and the CGS column is the same object; the call does not fail.  Both
\* calculate functions.
C13_IntegerLiteral ==
    [][ /\ (pc = "format" /\ raw_result.t = "int")
           => /\ pc' = "returned" /\ exc' = NoExc
              /\ ret'.raw = raw_result /\ ret'.si = raw_result /\ ret'.cgs = ret'.si
        /\ (pc = "calc_format" /\ raw_result.t = "int")
           => /\ pc' = "calc_returned" /\ exc' = NoExc /\ ret'.err = 0
              /\ ret'.raw = raw_result /\ ret'.si = raw_result /\ ret'.cgs = ret'.si
      ]_vars

\* AstroCalculator.calculate returned the integer 6 in both columns
C13_Witness ==
    pc = "returned" /\ ret.raw.t = "int" /\ ret.si = IntV(6) /\ ret.cgs = IntV(6)

\* C14: when the CGS value of a dimensioned result cannot be produced
\* (the constant e), the call returns all the same: the SI column holds the
\* formatted SI text (the description in calc.py) and the CGS column holds
\* the text of the failure.  Both calculate functions.
C14_CgsFailureKeepsSI ==
    [][ /\ (pc = "format" /\ HasUnits(raw_result) /\ CgsRaises(raw_result))
           => /\ pc' = "returned" /\ exc' = NoExc
              /\ ret'.raw = raw_result
              /\ ret'.si = FormatSI(raw_result)
              /\ ret'.cgs = Diagnostic("TypeError")
        /\ (pc = "calc_format" /\ HasUnits(raw_result) /\ CgsRaises(raw_result))
           => /\ pc' = "calc_returned" /\ exc' = NoExc /\ ret'.err = 0
              /\ ret'.raw = raw_result
              /\ ret'.si = Describe(raw_result)
              /\ ret'.cgs = Diagnostic("TypeError")
      ]_vars

\* calculate('e') returned the SI text and the failure text as CGS column
C14_Witness ==
    /\ pc = "returned" /\ inp = <<"e">>
    /\ ret.si = FormatSI(e_charge) /\ ret.cgs = Diagnostic("TypeError")

\* C15 (as claimed): a formatting failure is caught in each column on
\* its own: formatting never makes the call fail, the column that fails
\* holds the text of its failure and the other column is produced.
C15_FailuresCaughtPerField ==
    [][ /\ pc = "format"
           => /\ pc' = "returned" /\ exc' = NoExc
              /\ ret'.si # NoneV /\ ret'.cgs # NoneV
        /\ pc = "calc_format"
           => /\ pc' = "calc_returned" /\ exc' = NoExc
              /\ ret'.si # NoneV /\ ret'.cgs # NoneV
      ]_vars

\* C16 (as claimed): convert applied to a dimensioned quantity and a
\* non-empty unit name either succeeds or fails with UnitConversionError,
\* and it fails exactly if the dimensions of the unit of that name differ
\* from the quantity's.
C16_ConvertFailsOnlyOnDimension ==
    \A i \in 1..Len(converts) :
        LET cv == converts[i]
        IN  (cv.quant.t \in {"qty", "const"} /\ cv.unit # <<>>) =>
                /\ cv.ok \/ cv.err = "UnitConversionError"
                /\ (cv.unit \in user_units /\ cv.unit \in DOMAIN local_namespace)
                      => (cv.ok <=> local_namespace[cv.unit].dim = cv.quant.dim)
                /\ (cv.unit \notin user_units /\ cv.unit \in DOMAIN AstropyUnits)
                      => (cv.ok <=> AstropyUnits[cv.unit].dim = cv.quant.dim)

\* C17 (as claimed): every name of user_units is bound in the namespace.
C17_UserUnitsBound == \A name \in user_units : name \in DOMAIN local_namespace

\* C18: convert is called at most once per submission and only after
\* the terminal expression was evaluated: by execute_calculation and the
\* interactive loop only when calculate has returned a raw result together
\* with a target unit, with exactly these as arguments (or, in the
\* interactive loop, for a standalone 'in' request on a stored result);
\* never while calculate runs, after it failed, or for an empty input.
C18_ConversionAfterEvaluation ==
    /\ [][ (converts' # converts /\ converts' # <<>>) =>
              /\ converts = <<>> /\ Len(converts') = 1
              /\ \/ /\ pc = "returned" /\ exc = NoExc /\ strip(inp) # <<>>
                    /\ ret.raw # NoneV /\ ret.unit # NoText
                    /\ ret.unit = target_unit /\ ret.raw = raw_result
                    /\ evalLog # <<>> /\ evalLog[Len(evalLog)] = exp_to_eval
                    /\ converts'[1].quant = ret.raw /\ converts'[1].unit = ret.unit
                 \/ /\ pc = "idle" /\ program = "repl" /\ last_raw # NoneV
                    /\ evalLog' = <<>> ]_vars
    /\ [](pc \in {"loop", "final", "format", "returned", "raised"} => converts = <<>>)
    /\ []((pc = "printed" /\ (exc # NoExc \/ target_unit = NoText)) =>
             (converts = <<>> \/ StartsWithIn(inp)))

\* execute_calculation('2 * m in m') converted the length once
C18_Witness ==
    /\ program = "cli" /\ pc = "printed"
    /\ Len(converts) = 1 /\ converts[1].ok
    /\ converts[1].quant = QtyV(2, <<1, 0, 0>>) /\ converts[1].unit = <<"m">>

\* what a standalone 'in' request does: calculate is not called, nothing
\* is evaluated or bound, the stored result stays; the stored result, if
\* any, is converted to the unit named after 'in '
InRequestHandled ==
    /\ pc' = "printed" /\ evalLog' = <<>>
    /\ local_namespace' = local_namespace /\ last_raw' = last_raw
    /\ IF last_raw = NoneV
       THEN converts' = <<>> /\ output' = <<>>
       ELSE /\ Len(converts') = 1
            /\ converts'[1].quant = last_raw
            /\ converts'[1].unit = strip(SubSeq(inp', 3, Len(inp')))

\* C19 (as claimed): every submission of the interactive loop that
\* begins with 'in ' is handled as a request to convert the stored result.
C19_InNeverCalculates ==
    [][ (pc = "idle" /\ program = "repl" /\ pc' # "idle" /\ StartsWithIn(inp'))
           => InRequestHandled ]_vars

\* C19 (amended): a submission of the interactive loop that begins with
\* 'in ' and is longer than these three characters never calls calculate:
\* the raw result of the most recent calculation that returned is converted
\* to the unit named, the stored result and the namespace stay as they are,
\* and with no result stored nothing is converted or printed.  The stored
\* result changes only when a calculation returns, to its raw result.  (The
\* submission 'in ' alone, left by a typed 'in ,', is handed to calculate.)
C19_InRequestConvertsLastResult ==
    /\ [][ (pc = "idle" /\ program = "repl" /\ pc' # "idle"
              /\ StartsWithIn(inp') /\ Len(inp') > 2)
           => InRequestHandled ]_vars
    /\ [][ /\ (program = "repl" /\ pc = "returned") => last_raw' = ret.raw
           /\ last_raw' # last_raw => (program = "repl" /\ pc = "returned") ]_vars

\* with the result of an earlier 'c' stored, the request 'in m2' handed
\* that result to convert
C19_Witness ==
    /\ program = "repl" /\ pc = "printed"
    /\ StartsWithIn(inp)
    /\ Len(converts) = 1 /\ converts[1].quant = c_light /\ last_raw = c_light
    /\ converts[1].unit = <<"m2">>

\* C20 (as claimed): a name is resolved against the namespace of the
\* calculator and nothing else: a terminal expression that is a single name
\* has a value only if the name is bound in the namespace, and then that value.
C20_NamesFromNamespaceOnly ==
    (pc \in {"format", "returned"} /\ lines # <<>>
        /\ Len(exp_to_eval) = 1 /\ IsName(exp_to_eval[1])) =>
        /\ exp_to_eval \in DOMAIN local_namespace
        /\ raw_result = local_namespace[exp_to_eval]


\* ----------------------------------------------------------------- C21
\* C21: evaluating an expression has no side effect on the namespace.  The
\* evaluation of the terminal expression leaves the namespace as it was, and
\* a pass of the loop changes nothing but the variable of its assignment,
\* which it binds to the value of the right-hand side: a statement that is
\* skipped or fails leaves the namespace as it was.
C21_EvaluationLeavesNamespace ==
    [][ /\ pc = "final" => local_namespace' = local_namespace
        /\ pc = "loop" =>
             LET o == Statement(lines[count], local_namespace)
             IN  IF o.kind = "assign"
                 THEN /\ DOMAIN local_namespace' = DOMAIN local_namespace \cup {o.var}
                      /\ local_namespace'[o.var] = o.val
                      /\ \A k \in DOMAIN local_namespace \ {o.var} :
                            local_namespace'[k] = local_namespace[k]
                 ELSE local_namespace' = local_namespace ]_vars

\* the terminal expression 'b' was evaluated, after the right-hand sides
\* of 'a = 2' and 'b = a * 3', and the namespace holds what they bound
C21_Witness ==
    /\ pc = "format" /\ Len(evalLog) = 3
    /\ exp_to_eval = <<"b">> /\ raw_result = IntV(6)
    /\ local_namespace = Bind(Bind(entry_namespace, <<"a">>, IntV(2)), <<"b">>, IntV(6))

\* ----------------------------------------------------------------- C22
\* C22 (as claimed): a call of calculate (of the calculator, or of calc.py)
\* that returns a result had, in front of its final statement, only empty
\* statements and statements with an '='.
C22_NonFinalMustAssign ==
    ((pc = "returned" \/ (pc = "calc_returned" /\ ret.err = 0)) /\ lines # <<>>) =>
        \A i \in 1..(Len(lines) - 1) :
            strip(lines[i]) = <<>> \/ Contains(lines[i], <<"=">>)

\* ----------------------------------------------------------------- C23
\* C23: in the interactive loop one calculator serves all submissions.  No
\* step of the loop removes a name from the namespace, and the value of a
\* name changes only in the pass of calculate's loop over an assignment to
\* that name, to the value assigned: submissions that fail, 'in <unit>'
\* requests and special commands leave every binding as it was.
C23_ReplBindingsPersist ==
    [][ program = "repl" =>
          \A k \in DOMAIN local_namespace :
             /\ k \in DOMAIN local_namespace'
             /\ local_namespace'[k] # local_namespace[k] =>
                  /\ pc = "loop"
                  /\ Statement(lines[count], local_namespace).kind = "assign"
                  /\ Statement(lines[count], local_namespace).var = k
                  /\ Statement(lines[count], local_namespace).val = local_namespace'[k] ]_vars

\* the submission 'a * m' assigns nothing and was evaluated with the 'a'
\* bound by an earlier submission
C23_Witness ==
    /\ program = "repl" /\ pc = "returned"
    /\ inp = <<"a", " ", "*", " ", "m">>
    /\ entry_namespace[<<"a">>] = IntV(2)
    /\ raw_result = QtyV(2, <<1, 0, 0>>)

\* ----------------------------------------------------------------- C25
\* the submission holds a typed line that consists of 'q'
QuitTyped(text) == \E i \in 1..Len(split(text, <<",", " ">>)) :
                       split(text, <<",", " ">>)[i] = <<"q">>

\* C25 (as claimed): in the interactive loop a submission in which a line
\* 'q' was typed ends the loop, and nothing of it is evaluated.
C25_QuitAtAnyLine ==
    (program = "repl" /\ pc # "idle" /\ QuitTyped(inp)) =>
        pc = "exited" /\ evalLog = <<>>

\* ----------------------------------------------------------------- C27
\* C27 (as claimed): the target unit recorded by calculate is taken from
\* the final statement only: it never contains the delimiter of statements.
C27_ClauseOfFinalStatementOnly ==
    (InCalculate /\ lines # <<>> /\ target_unit # NoText) =>
        ~Contains(target_unit, <<",">>)

\* ----------------------------------------------------------------- C28
\* the final statement of the running call is 'name = expr'
FinalIsAssignment ==
    /\ lines # <<>>
    /\ NumEqual(lines[Len(lines)]) = 1
    /\ Len(LeftOf(lines[Len(lines)])) = 1
    /\ IsName(LeftOf(lines[Len(lines)])[1])

\* C28: when the final statement is an assignment 'name = expr' whose
\* right-hand side evaluates, calculate binds the name and takes the name
\* as the terminal expression: the right-hand side is evaluated first, then
\* the name is looked up, and the raw result is the value just bound.
C28_FinalAssignmentYieldsItsValue ==
    (program \in {"calc", "cli", "repl"} /\ pc \in {"final", "format", "returned"}
        /\ FinalIsAssignment) =>
        LET var == LeftOf(lines[Len(lines)])
            value == split(strip(lines[Len(lines)]), <<"=">>)[2]
        IN  /\ exp_to_eval = var
            /\ var \in DOMAIN local_namespace
            /\ pc = "final" => evalLog # <<>> /\ evalLog[Len(evalLog)] = value
            /\ pc \in {"format", "returned"} =>
                 /\ Len(evalLog) >= 2
                 /\ evalLog[Len(evalLog) - 1] = value
                 /\ evalLog[Len(evalLog)] = var
                 /\ raw_result = local_namespace[var]

\* the input 'a = 2, b = a * 3' returned 6, the value it bound to b
C28_Witness ==
    /\ program = "calc" /\ pc = "returned"
    /\ Len(lines) = 2 /\ FinalIsAssignment
    /\ exp_to_eval = <<"b">> /\ ret.raw = IntV(6)
    /\ <<"b">> \notin DOMAIN entry_namespace

\* ----------------------------------------------------------------- C29
\* C29 (as claimed): when the conversion to the requested unit fails, the
\* output of execute_calculation and of the interactive loop contains an
\* error message about it.
C29_FailedConversionReported ==
    (program \in {"cli", "repl"} /\ pc = "printed"
        /\ converts # <<>> /\ ~converts[1].ok) =>
        \E i \in 1..Len(output) : output[i].kind \in {"convert_error", "error"}


\* ----------------------------------------------------------------- C24
\* C24 (as claimed): in src/calc/app.py every request is answered with the
\* rendered page of the three elements execute_calculation returned.
C24_ThreeElementsUnpacked ==
    program = "calc/app.py" =>
        \A r \in RequestIds :
            requests[r].pc = "responded" =>
                /\ requests[r].response.status = 200
                /\ Len(requests[r].response.page) = 3

\* ----------------------------------------------------------------- C26
\* the variable table that the statements ls[1..k] of one input build,
\* starting from the empty table
RECURSIVE OwnTable(_, _)
OwnTable(ls, k) ==
    IF k <= 0 THEN NoVars
    ELSE LET t == OwnTable(ls, k - 1)
             o == CalcStatement(ls[k], t)
         IN  IF o.kind = "assign" THEN Bind(t, o.var, o.val) ELSE t

\* the statements of the frame f that its calculate has completed
Completed(f) ==
    IF f.pc \in {"calc_loop", "calc_raised"} /\ f.count > 0 THEN f.count - 1
    ELSE Len(f.lines) - 1

\* C26: under every interleaving of the requests, the variable table of a
\* request holds what the statements of its own input have bound and
\* nothing else, the value it returns is the value of its last line under
\* that table, and a request that is over leaves no variable behind.
C26_RequestsAreIsolated ==
    program \in WebPrograms =>
        \A r \in RequestIds :
            LET f == requests[r]
            IN  /\ f.pc = "idle" => f = IdleFrame
                /\ f.pc # "idle" => f.local_vars = OwnTable(f.lines, Completed(f))
                /\ (f.pc = "calc_returned" /\ f.inp # <<>>) =>
                     LET own == calc_parse_and_eval(f.exp_to_eval,
                                                    OwnTable(f.lines, Len(f.lines) - 1))
                     IN  /\ f.ret.err = (IF own.ok THEN 0 ELSE 1)
                         /\ own.ok => f.ret.raw = own.val

\* request 1 has bound a and is about to evaluate its last line, while
\* request 2 has evaluated 'a' and reported that a is not defined
C26_Witness ==
    /\ program = "astrocalculator/app.py"
    /\ requests[1].pc = "calc_final" /\ <<"a">> \in DOMAIN requests[1].local_vars
    /\ requests[2].pc = "calc_returned" /\ requests[2].inp = <<"a">>
    /\ requests[2].ret.err = 1


\* ----------------------------------------------------------------- C30
\* what the input shown in the window evaluates to
GuiValue(text) ==
    IF parse_expr(text).ok THEN PyEval(parse_expr(text).text, GuiGlobals)
    ELSE Fail("ParseError")
\* the texts the user row may show for the value v
UserTexts(v) ==
    {UserRow([NoWindow EXCEPT !.Ret = v], unit) : unit \in GuiUnits}

\* C30 (as claimed): in the GUI, when the input shown fails to evaluate or
\* its CGS formatting fails, each output row is empty or shows output of
\* that input, and the stored result Ret is a result of that input.
C30_NoStaleOutput ==
    LET cur == GuiValue(window.inp)
    IN  (program = "gui" /\ window.inp # <<>> /\ (~cur.ok \/ CgsRaises(cur.val))) =>
            /\ window.out_cgs = EmptyText
            /\ window.out_si \in {EmptyText}
                   \cup (IF cur.ok THEN {CalcSIResult(cur.val)} ELSE {})
            /\ window.out_user \in {EmptyText}
                   \cup (IF cur.ok THEN UserTexts(cur.val) ELSE {})
            /\ window.Ret \in {NoneV} \cup (IF cur.ok THEN {cur.val} ELSE {})

====
